---- MODULE Spec2Model ----
(***************************************************************************)
(* Model of the Windows frontend window of wails v2                        *)
(*   src/v2/internal/frontend/desktop/windows/window.go                    *)
(*                                                                         *)
(* The state is the Window struct (frontendOptions, the stored min/max     *)
(* constraints, the position observer) together with the part of the       *)
(* embedded winc.Form the file drives: the constraints pushed to the form  *)
(* and its full-screen flag.  The last operation, the message it handled,  *)
(* the value it returned, the client rectangle it left in the              *)
(* NCCALCSIZE_PARAMS and the platform calls it issued are kept so that     *)
(* properties of one call can be stated on the state after it.             *)
(*                                                                         *)
(* winc.Form and w32 are an external library.  Form.SetMinSize and         *)
(* Form.SetMaxSize are modelled as storing their arguments in the form,    *)
(* Form.Fullscreen / Form.UnFullscreen as setting / clearing the flag      *)
(* Form.IsFullScreen reports, and the results of the platform queries      *)
(* (default window procedure, GetMonitorInfo, GetDPIForMonitor,            *)
(* ScreenToClient, GetWindowLong, GetWindowRect) as inputs of the message. *)
(***************************************************************************)
EXTENDS Integers, Sequences, FiniteSets, TLC

VARIABLES
    frontendOptions,    \* Window.frontendOptions (*options.App), read-only after NewWindow
    minWidth,           \* Window.minWidth
    minHeight,          \* Window.minHeight
    maxWidth,           \* Window.maxWidth
    maxHeight,          \* Window.maxHeight
    notifyRegistered,   \* Window.notifyParentWindowPositionChanged != nil
    formMinSize,        \* <<w, h>> last pushed with Form.SetMinSize
    formMaxSize,        \* <<w, h>> last pushed with Form.SetMaxSize
    isFullScreen,       \* what Form.IsFullScreen() reports
    lastOps,            \* <<previous operation, last operation>>
    beforeFullscreen,   \* the constraints as they were when Fullscreen was last entered
    msg,                \* the message WndProc handled last (NoMsg after another operation)
    ret,                \* the value WndProc returned
    rgrc,               \* NCCALCSIZE_PARAMS.rgrc[0] as WndProc left it
    calls               \* the platform calls the last operation issued, in order

\* The build command of the CLI
\*   src/v2/cmd/wails/internal/commands/build/build.go
VARIABLES
    flags,              \* the command line flags and the host the command runs on
    bpc,                \* where the command action is: "idle", "each", "returned"
    targets,            \* targets, after Deduplicate
    position,           \* index in targets of the next target targets.Each visits
    buildOptions,       \* *build.Options, shared by all iterations
    compress,           \* the captured flag variable compress
    visits,             \* the targets the closure was called with, in order
    builds,             \* the build.Build invocations: options passed and outcome
    printedOutputFile,  \* the "Output File:" line of the summary, << >> if none
    actionResult        \* what the command action returned: "none", "nil", "error"

buildVars == <<flags, bpc, targets, position, buildOptions, compress, visits,
               builds, printedOutputFile, actionResult>>

winVars == <<frontendOptions, minWidth, minHeight, maxWidth, maxHeight,
             notifyRegistered, formMinSize, formMaxSize, isFullScreen>>
windowVars == <<frontendOptions, minWidth, minHeight, maxWidth, maxHeight,
                notifyRegistered, formMinSize, formMaxSize, isFullScreen,
                lastOps, beforeFullscreen, msg, ret, rgrc, calls>>
vars == <<windowVars, buildVars>>

----------------------------------------------------------------------------
(* Bounds and input domains *)

\* the -platform flag names up to MaxTargets targets
MaxTargets == 2

\* cursor offsets near the top run from -1 (just above the client area) to MaxY
MaxY == 2

MinSizes == {<<0, 0>>, <<400, 300>>}
MaxSizes == {<<0, 0>>, <<0, 600>>, <<800, 600>>}

Options ==
    {[Width |-> 800, Height |-> 600,
      MinWidth |-> mn[1], MinHeight |-> mn[2],
      MaxWidth |-> mx[1], MaxHeight |-> mx[2],
      Frameless |-> fl, Fullscreen |-> fs] :
        mn \in MinSizes, mx \in MaxSizes, fl \in BOOLEAN, fs \in BOOLEAN}

Rects == {[Left |-> 0, Top |-> 0, Right |-> 800, Bottom |-> 600],
          [Left |-> 100, Top |-> 100, Right |-> 1600, Bottom |-> 1200]}
ZeroRect == [Left |-> 0, Top |-> 0, Right |-> 0, Bottom |-> 0]

\* effective DPI of the hosting monitor (GetDPIForMonitor reports dpiX = dpiY)
DPIs == {96, 192}
\* screen y of the top of the client area
ClientOrigins == {0}
\* and one offset far inside the client area
CursorYs == ((-1)..MaxY) \cup {300}
\* results of the default window procedure for messages other than WM_NCHITTEST
DefaultResults == {0, 1}

----------------------------------------------------------------------------
(* Platform constants: hit-test codes of w32 and the system metrics *)

HTNOWHERE == 0
HTCLIENT == 1
HTCAPTION == 2
HTLEFT == 10
HTRIGHT == 11
HTTOP == 12
HTTOPLEFT == 13
HTTOPRIGHT == 14
HTBOTTOM == 15
HTBOTTOMLEFT == 16
HTBOTTOMRIGHT == 17

\* the eight named resize edges and corners
ResizeEdges == {HTLEFT, HTRIGHT, HTTOP, HTTOPLEFT, HTTOPRIGHT,
                HTBOTTOM, HTBOTTOMLEFT, HTBOTTOMRIGHT}
\* what the default window procedure may answer to WM_NCHITTEST
DefaultHits == ResizeEdges \cup {HTNOWHERE, HTCLIENT, HTCAPTION}

\* GetSystemMetrics(SM_CXFRAME), (SM_CYFRAME), (92 = SM_CXPADDEDBORDER), unscaled
MetricCXFRAME == 2
MetricCYFRAME == 1
MetricCXPADDEDBORDER == 1

\* winc.ScaleWithDPI(pixels, dpi): pixels * dpi / 96, integer division
ScaleWithDPI(pixels, dpi) == (pixels * dpi) \div 96

----------------------------------------------------------------------------
(* Messages: the arguments of WndProc and the answers of the platform      *)
(* queries WndProc may make while handling them                            *)

MsgKinds == {"WM_NCLBUTTONDOWN", "WM_MOVE", "WM_MOVING", "WM_DPICHANGED",
             "WM_CREATE", "WM_NCHITTEST", "WM_NCCALCSIZE", "WM_SIZE"}

NoMsg ==
    [kind |-> "none",
     wparam |-> 0,
     formResult |-> 0,          \* what Form.WndProc(msg, wparam, lparam) returns
     monitorInfoOk |-> FALSE,   \* w32.GetMonitorInfo succeeds
     dpi |-> 96,                \* dpiX = dpiY from w32.GetDPIForMonitor
     screenToClientOk |-> FALSE,\* ok of w32.ScreenToClient
     originY |-> 0,             \* screen y of the top of the client area
     y |-> 0,                   \* vertical client offset of the cursor
     maximized |-> FALSE,       \* style & WS_MAXIMIZE != 0
     rect |-> ZeroRect,         \* the RECT lparam points to / GetWindowRect returns
     observerErr |-> FALSE]     \* the position observer returns an error

\* monitor info and DPI: the DPI is only obtained from an available monitor
MonitorAnswers == {<<FALSE, 96>>} \cup {<<TRUE, d>> : d \in DPIs}
\* cursor and conversion: a failed conversion yields (0, 0, false)
CursorAnswers == {<<FALSE, 0, 0>>}
                     \cup {<<TRUE, o, y>> : o \in ClientOrigins, y \in CursorYs}

PlainMsgs ==
    {[NoMsg EXCEPT !.kind = k, !.formResult = d] :
        k \in {"WM_NCLBUTTONDOWN", "WM_SIZE"}, d \in DefaultResults}
MoveMsgs ==
    {[NoMsg EXCEPT !.kind = k, !.formResult = d, !.observerErr = e] :
        k \in {"WM_MOVE", "WM_MOVING"}, d \in DefaultResults, e \in BOOLEAN}
RectMsgs ==
    {[NoMsg EXCEPT !.kind = k, !.formResult = d, !.rect = r] :
        k \in {"WM_DPICHANGED", "WM_CREATE"}, d \in DefaultResults, r \in Rects}
HitTestMsgs ==
    {[NoMsg EXCEPT !.kind = "WM_NCHITTEST", !.formResult = h,
                   !.monitorInfoOk = mon[1], !.dpi = mon[2],
                   !.screenToClientOk = c[1], !.originY = c[2], !.y = c[3]] :
        h \in DefaultHits, mon \in MonitorAnswers, c \in CursorAnswers}
\* wparam = 0: no rectangle data to adjust, the style and the monitor do not matter
CalcSizeMsgs ==
    {[NoMsg EXCEPT !.kind = "WM_NCCALCSIZE", !.wparam = 0, !.formResult = d,
                   !.rect = r] :
        d \in DefaultResults, r \in Rects}
    \cup
    {[NoMsg EXCEPT !.kind = "WM_NCCALCSIZE", !.wparam = 1, !.formResult = d,
                   !.monitorInfoOk = mon[1], !.dpi = mon[2],
                   !.maximized = mx, !.rect = r] :
        d \in DefaultResults, mon \in MonitorAnswers, mx \in BOOLEAN, r \in Rects}
Msgs == PlainMsgs \cup MoveMsgs \cup RectMsgs \cup HitTestMsgs \cup CalcSizeMsgs

----------------------------------------------------------------------------
(* WndProc, frameless part: WM_NCHITTEST *)

\* The switch on hit: a Go case does not fall through, so of the nine cases
\* listed only the last, HTBOTTOMLEFT, has a body (return hit)
EdgeSwitchReturns(hit) == hit = HTBOTTOMLEFT

\* int(w32.HIWORD(uint32(lparam))): the unsigned high word of the screen position
LParamY(m) == (m.originY + m.y) % 65536

\* cursorY of w32.ScreenToClient(handle, x, LParamY)
ScreenToClientY(m) == LParamY(m) - m.originY

\* The mutant takes the top edge without looking at ok of ScreenToClient
\* (the failed conversion leaves the cursor at 0, 0) nor at the monitor info
TopEdgeCorrection_IgnoresFailure(o, m) ==
    LET frameY == ScaleWithDPI(MetricCYFRAME, m.dpi)
        padding == ScaleWithDPI(MetricCXPADDEDBORDER, m.dpi)
        cursorY == IF m.screenToClientOk THEN ScreenToClientY(m) ELSE 1
    IN  IF cursorY > 0 /\ cursorY < frameY + padding THEN HTTOP ELSE HTCLIENT

\* The top-edge correction and the final return w32.HTCLIENT
TopEdgeCorrection(o, m) ==
    IF /\ m.monitorInfoOk
       /\ (o.MaxWidth > 0 \/ o.MaxHeight > 0)
       /\ m.screenToClientOk
       /\ LET frameY == ScaleWithDPI(MetricCYFRAME, m.dpi)
              padding == ScaleWithDPI(MetricCXPADDEDBORDER, m.dpi)
              cursorY == ScreenToClientY(m)
          IN  cursorY > 0 /\ cursorY < frameY + padding
    THEN HTTOP
    ELSE HTCLIENT

\* case w32.WM_NCHITTEST of the frameless switch
HitTest(o, m) ==
    IF EdgeSwitchReturns(m.formResult)
    THEN m.formResult
    ELSE TopEdgeCorrection(o, m)

----------------------------------------------------------------------------
(* WndProc, frameless part: WM_NCCALCSIZE with wparam != 0 *)

\* params.rgrc[0] after the handler
NcCalcSizeRect(o, m) ==
    IF m.monitorInfoOk /\ (o.MaxWidth > 0 \/ o.MaxHeight > 0)
    THEN LET frameX == ScaleWithDPI(MetricCXFRAME, m.dpi)
             frameY == ScaleWithDPI(MetricCYFRAME, m.dpi)
             padding == ScaleWithDPI(MetricCXPADDEDBORDER, m.dpi)
         IN  [Left |-> m.rect.Left + (frameX + padding),
              Right |-> m.rect.Right - (frameX + padding),
              Bottom |-> m.rect.Bottom - (frameY + padding),
              Top |-> IF m.maximized THEN m.rect.Top + padding ELSE m.rect.Top]
    ELSE m.rect

----------------------------------------------------------------------------
(* WndProc: the platform calls, the result and the rectangle *)

\* The mutant passes the right and bottom edges as the size
DpiChangedCall_EdgesAsSize(m) ==
    <<"SetWindowPos", m.rect.Left, m.rect.Top, m.rect.Right, m.rect.Bottom,
      "SWP_NOZORDER|SWP_NOACTIVATE">>

\* case 0x02E0 (WM_DPICHANGED): the SetWindowPos request
DpiChangedCall(m) ==
    <<"SetWindowPos", m.rect.Left, m.rect.Top,
      m.rect.Right - m.rect.Left, m.rect.Bottom - m.rect.Top,
      "SWP_NOZORDER|SWP_NOACTIVATE">>

\* The mutant notifies the observer of WM_MOVE only
FirstSwitchCalls_MoveOnly(registered, m) ==
    CASE m.kind = "WM_NCLBUTTONDOWN" -> << <<"SetFocus">> >>
      [] m.kind = "WM_MOVE" ->
            IF registered THEN << <<"notifyParentWindowPositionChanged">> >> ELSE << >>
      [] m.kind = "WM_DPICHANGED" -> << DpiChangedCall(m) >>
      [] OTHER -> << >>

\* the first switch of WndProc
FirstSwitchCalls(registered, m) ==
    CASE m.kind = "WM_NCLBUTTONDOWN" -> << <<"SetFocus">> >>
      [] m.kind \in {"WM_MOVE", "WM_MOVING"} ->
            IF registered THEN << <<"notifyParentWindowPositionChanged">> >> ELSE << >>
      [] m.kind = "WM_DPICHANGED" -> << DpiChangedCall(m) >>
      [] OTHER -> << >>

\* case w32.WM_CREATE of the frameless switch: the frame-changed request
CreateCall(m) ==
    <<"SetWindowPos", m.rect.Left, m.rect.Top,
      m.rect.Right - m.rect.Left, m.rect.Bottom - m.rect.Top,
      "SWP_FRAMECHANGED|SWP_NOMOVE|SWP_NOSIZE">>

\* the frameless switch returns without reaching the final Form.WndProc
ReturnsEarly(o, m) ==
    /\ o.Frameless
    /\ \/ m.kind = "WM_NCHITTEST"
       \/ m.kind = "WM_NCCALCSIZE" /\ m.wparam # 0

WndProcCalls(o, registered, m) ==
    FirstSwitchCalls(registered, m)
      \o (IF o.Frameless /\ m.kind = "WM_CREATE" THEN << CreateCall(m) >> ELSE << >>)
      \o (IF o.Frameless /\ m.kind = "WM_NCHITTEST" THEN << <<"Form.WndProc">> >> ELSE << >>)
      \o (IF ReturnsEarly(o, m) THEN << >> ELSE << <<"Form.WndProc">> >>)

\* The mutant runs the frameless switch whatever options.Frameless says
WndProcResult_AlwaysFrameless(o, m) ==
    IF m.kind = "WM_NCHITTEST" THEN HitTest(o, m)
    ELSE IF m.kind = "WM_NCCALCSIZE" /\ m.wparam # 0 THEN 0
    ELSE m.formResult

WndProcResult(o, m) ==
    IF o.Frameless /\ m.kind = "WM_NCHITTEST" THEN HitTest(o, m)
    ELSE IF o.Frameless /\ m.kind = "WM_NCCALCSIZE" /\ m.wparam # 0 THEN 0
    ELSE m.formResult

\* rgrc[0] as this code leaves it (ZeroRect for a message that carries none)
WndProcRect(o, m) ==
    IF m.kind # "WM_NCCALCSIZE" THEN ZeroRect
    ELSE IF o.Frameless /\ m.wparam # 0 THEN NcCalcSizeRect(o, m)
    ELSE m.rect

----------------------------------------------------------------------------
(* The build command: inputs *)

\* A platform string is kept as its parts between "/" (strings.Split(p, "/")),
\* a file name as the sequence of the pieces it is put together from.
PlatformStrings ==
    {<<"windows">>, <<"darwin", "universal">>, <<"darwin", "arm64">>,
     <<"linux", "amd64">>, <<"bogus">>}

\* validPlatformArch
ValidPlatformArch ==
    {<<"darwin">>, <<"darwin", "amd64">>, <<"darwin", "arm64">>,
     <<"darwin", "universal">>, <<"linux">>, <<"linux", "amd64">>,
     <<"linux", "arm64">>, <<"windows">>, <<"windows", "amd64">>,
     <<"windows", "arm64">>}

\* runtime.GOOS with the architecture the command assumes for the host
\* (arm64 when system.IsAppleSilicon, runtime.GOARCH otherwise)
Hosts == {[goos |-> "windows", arch |-> "amd64"],
          [goos |-> "linux", arch |-> "amd64"],
          [goos |-> "darwin", arch |-> "arm64"]}

\* the values of the -platform flag: 1..MaxTargets comma separated strings
PlatformFlags ==
    UNION {[1..n -> PlatformStrings] : n \in 1..MaxTargets}

Flags ==
    {[platform |-> pf,
      outputFilename |-> o,         \* -o
      compress |-> c,               \* -upx
      skipFrontend |-> sf,          \* -s
      cleanBuildDirectory |-> cl,   \* -clean
      experimental |-> ex,          \* -tags contains exp
      checksOk |-> ok,              \* compiler found, webview2 valid, go.mod and cwd readable
      host |-> h,
      projectOutputFilename |-> po, \* projectOptions.OutputFilename
      projectName |-> <<"proj">>] : \* projectOptions.Name
        pf \in PlatformFlags, o \in {<< >>, <<"out">>}, c \in BOOLEAN,
        sf \in BOOLEAN, cl \in BOOLEAN, ex \in BOOLEAN, ok \in BOOLEAN,
        h \in Hosts, po \in {<< >>, <<"app", ".exe">>}}

NoFlags ==
    [platform |-> << >>, outputFilename |-> << >>, compress |-> FALSE,
     skipFrontend |-> FALSE, cleanBuildDirectory |-> FALSE,
     experimental |-> FALSE, checksOk |-> FALSE,
     host |-> [goos |-> "windows", arch |-> "amd64"],
     projectOutputFilename |-> << >>, projectName |-> << >>]

NoBuildOptions ==
    [OutputFile |-> << >>, CleanBuildDirectory |-> FALSE, IgnoreFrontend |-> FALSE,
     Compress |-> FALSE, Platform |-> "", Arch |-> "", BundleName |-> << >>]

----------------------------------------------------------------------------
(* The build command: helpers *)

Contains(seq, e) == \E i \in 1..Len(seq) : seq[i] = e

RECURSIVE Deduplicate(_)
\* targets.Deduplicate(): the first occurrence of each string, in order
Deduplicate(seq) ==
    IF seq = << >> THEN << >>
    ELSE LET front == Deduplicate(SubSeq(seq, 1, Len(seq) - 1))
             last == seq[Len(seq)]
         IN  IF Contains(front, last) THEN front ELSE Append(front, last)

\* strings.TrimSuffix(name, ".exe")
TrimSuffixExe(name) ==
    IF Len(name) > 0 /\ name[Len(name)] = ".exe"
    THEN SubSeq(name, 1, Len(name) - 1)
    ELSE name

\* the pre-build validation: every return of an error before the targets are made
ValidationPasses(f) ==
    /\ f.checksOk
    /\ ~(f.host.goos = "linux" /\ ~f.experimental)

\* buildOptions := &build.Options{...}
NewBuildOptions(f) ==
    [OutputFile |-> f.outputFilename,
     CleanBuildDirectory |-> f.cleanBuildDirectory,
     IgnoreFrontend |-> f.skipFrontend,
     Compress |-> f.compress,
     Platform |-> "",
     Arch |-> "",
     BundleName |-> << >>]

\* desiredFilename before the platform is looked at
ProjectFilename(f) ==
    TrimSuffixExe(IF f.projectOutputFilename = << >>
                  THEN f.projectName
                  ELSE f.projectOutputFilename)

\* buildOptions.Arch
TargetArch(f, p) == IF Len(p) = 2 THEN p[2] ELSE f.host.arch

\* the cross-compile returns of switch buildOptions.Platform
CrossCompileSkipped(f, p) ==
    \/ p[1] = "linux" /\ f.host.goos # "linux"
    \/ p[1] = "darwin" /\ f.host.goos # "darwin"

\* macTargets.Length()
MacTargets(ts) == Cardinality({i \in 1..Len(ts) : ts[i][1] = "darwin"})

\* buildOptions.BundleName after the darwin case
BundleName(f, ts, p, old) ==
    IF p[1] = "darwin" /\ MacTargets(ts) = 2
    THEN ProjectFilename(f) \o <<"-", TargetArch(f, p), ".app">>
    ELSE old

\* desiredFilename as assigned to buildOptions.OutputFile
DesiredFilename(f, ts, p) ==
    LET base == ProjectFilename(f)
        named == IF Len(ts) > 1
                 THEN CASE p[1] = "windows" -> base \o <<"-", TargetArch(f, p)>>
                        [] p[1] \in {"linux", "darwin"} ->
                               base \o <<"-", p[1], "-", TargetArch(f, p)>>
                        [] OTHER -> base
                 ELSE base
    IN  IF p[1] = "windows" THEN named \o <<".exe">> ELSE named

\* buildOptions as build.Build receives it for target p
OptionsForTarget(f, ts, p, bo) ==
    [bo EXCEPT !.Platform = p[1],
               !.Arch = TargetArch(f, p),
               !.BundleName = BundleName(f, ts, p, bo.BundleName),
               !.OutputFile = DesiredFilename(f, ts, p)]

\* The mutant leaves the options as they are after a build
AfterBuild_NoUpdate(bo, ok) == bo

\* after build.Build: an error returns from the closure, a success prepares
\* the subsequent iterations
AfterBuild(bo, ok) ==
    IF ok
    THEN [bo EXCEPT !.IgnoreFrontend = TRUE, !.CleanBuildDirectory = FALSE]
    ELSE bo

\* The mutant gives up the remaining targets when one is skipped or fails
NextPosition_StopsOnFailure(pos, n, outcome) ==
    IF outcome = "built" THEN pos + 1 ELSE n + 1

\* targets.Each: the closure returning, for whatever reason, moves on to the
\* next target
NextPosition(pos, n, outcome) == pos + 1

----------------------------------------------------------------------------
(* The build command: the action *)

BuildIdle ==
    /\ flags = NoFlags
    /\ bpc = "idle"
    /\ targets = << >>
    /\ position = 1
    /\ buildOptions = NoBuildOptions
    /\ compress = FALSE
    /\ visits = << >>
    /\ builds = << >>
    /\ printedOutputFile = << >>
    /\ actionResult = "none"

\* command.Action up to targets.Each: the validation, the targets, the
\* options and the printed summary
BuildStart(f) ==
    /\ flags = f
    /\ visits = << >>
    /\ builds = << >>
    /\ position = 1
    /\ compress = f.compress
    /\ IF ValidationPasses(f)
       THEN /\ bpc = "each"
            /\ actionResult = "none"
            /\ targets = Deduplicate(f.platform)
            /\ buildOptions = NewBuildOptions(f)
            /\ printedOutputFile =
                  IF Len(f.outputFilename) > 0 /\ Len(Deduplicate(f.platform)) = 1
                  THEN f.outputFilename
                  ELSE << >>
       ELSE /\ bpc = "returned"
            /\ actionResult = "error"
            /\ targets = << >>
            /\ buildOptions = NoBuildOptions
            /\ printedOutputFile = << >>

\* one call of the closure of targets.Each that ends before build.Build
EachSkip ==
    /\ bpc = "each"
    /\ position <= Len(targets)
    /\ LET p == targets[position]
       IN  /\ \/ p \notin ValidPlatformArch
              \/ CrossCompileSkipped(flags, p)
           /\ visits' = Append(visits, p)
           /\ IF p \notin ValidPlatformArch
              THEN UNCHANGED <<buildOptions, compress>>
              ELSE /\ buildOptions' =
                         [buildOptions EXCEPT !.Platform = p[1],
                                              !.Arch = TargetArch(flags, p)]
                   /\ compress' = IF compress /\ p = <<"darwin", "universal">>
                                  THEN FALSE ELSE compress
           /\ position' = NextPosition(position, Len(targets), "skipped")
    /\ UNCHANGED <<flags, bpc, targets, builds, printedOutputFile, actionResult>>

\* one call of the closure of targets.Each that reaches build.Build, which
\* succeeds (ok) or returns an error
EachBuild(ok) ==
    /\ bpc = "each"
    /\ position <= Len(targets)
    /\ LET p == targets[position]
           bo == OptionsForTarget(flags, targets, p, buildOptions)
       IN  /\ p \in ValidPlatformArch
           /\ ~CrossCompileSkipped(flags, p)
           /\ visits' = Append(visits, p)
           /\ compress' = IF compress /\ p = <<"darwin", "universal">>
                          THEN FALSE ELSE compress
           /\ builds' = Append(builds, [position |-> position, target |-> p,
                                        options |-> bo, ok |-> ok])
           /\ buildOptions' = AfterBuild(bo, ok)
           /\ position' = NextPosition(position, Len(targets),
                                       IF ok THEN "built" ELSE "failed")
    /\ UNCHANGED <<flags, bpc, targets, printedOutputFile, actionResult>>

\* targets.Each is through: return nil
BuildReturn ==
    /\ bpc = "each"
    /\ position > Len(targets)
    /\ bpc' = "returned"
    /\ actionResult' = "nil"
    /\ UNCHANGED <<flags, targets, position, buildOptions, compress, visits,
                   builds, printedOutputFile>>

----------------------------------------------------------------------------
(* The window: construction and the controller operations *)

NoSnapshot ==
    [valid |-> FALSE, min |-> <<0, 0>>, max |-> <<0, 0>>,
     formMin |-> <<0, 0>>, formMax |-> <<0, 0>>,
     wasFullScreen |-> FALSE, fullscreenAtStart |-> FALSE]

\* the operation op has just run: it becomes the last operation
Shift(op) == <<lastOps[2], op>>

\* an operation other than WndProc leaves no message behind
NoMessage ==
    /\ msg' = NoMsg
    /\ ret' = 0
    /\ rgrc' = ZeroRect

\* The mutant pushes the constraints to the form whatever options.Fullscreen says
NewWindow_AlwaysPushes(o) ==
    /\ frontendOptions = o
    /\ minHeight = o.MinHeight
    /\ minWidth = o.MinWidth
    /\ maxHeight = o.MaxHeight
    /\ maxWidth = o.MaxWidth
    /\ notifyRegistered = FALSE
    /\ formMinSize = <<o.MinWidth, o.MinHeight>>
    /\ formMaxSize = <<o.MaxWidth, o.MaxHeight>>
    /\ isFullScreen = FALSE
    /\ lastOps = <<"none", "NewWindow">>
    /\ beforeFullscreen = NoSnapshot
    /\ msg = NoMsg
    /\ ret = 0
    /\ rgrc = ZeroRect
    /\ calls = << <<"Form.SetSize", o.Width, o.Height>>,
                  <<"Form.SetMinSize", o.MinWidth, o.MinHeight>>,
                  <<"Form.SetMaxSize", o.MaxWidth, o.MaxHeight>> >>

\* NewWindow(parent, appoptions): the struct literal, and the calls that set
\* the size and, unless the window starts full-screen, the constraints.
\* A fresh winc.Form has no constraints (0, 0) and is not full-screen.
NewWindow(o) ==
    /\ frontendOptions = o
    /\ minHeight = o.MinHeight
    /\ minWidth = o.MinWidth
    /\ maxHeight = o.MaxHeight
    /\ maxWidth = o.MaxWidth
    /\ notifyRegistered = FALSE
    /\ formMinSize = IF ~o.Fullscreen THEN <<o.MinWidth, o.MinHeight>> ELSE <<0, 0>>
    /\ formMaxSize = IF ~o.Fullscreen THEN <<o.MaxWidth, o.MaxHeight>> ELSE <<0, 0>>
    /\ isFullScreen = FALSE
    /\ lastOps = <<"none", "NewWindow">>
    /\ beforeFullscreen = NoSnapshot
    /\ msg = NoMsg
    /\ ret = 0
    /\ rgrc = ZeroRect
    /\ calls = << <<"Form.SetSize", o.Width, o.Height>> >>
                 \o (IF ~o.Fullscreen
                     THEN << <<"Form.SetMinSize", o.MinWidth, o.MinHeight>>,
                             <<"Form.SetMaxSize", o.MaxWidth, o.MaxHeight>> >>
                     ELSE << >>)

Init ==
    /\ \E o \in Options : NewWindow(o)
    /\ BuildIdle

\* the package registers the observer by assigning the field
RegisterObserver ==
    /\ ~notifyRegistered
    /\ notifyRegistered' = TRUE
    /\ lastOps' = Shift("RegisterObserver")
    /\ beforeFullscreen' = NoSnapshot
    /\ calls' = << >>
    /\ NoMessage
    /\ UNCHANGED <<frontendOptions, minWidth, minHeight, maxWidth, maxHeight,
                   formMinSize, formMaxSize, isFullScreen>>

\* The mutant enters full-screen without clearing the form's constraints
Fullscreen_KeepsConstraints ==
    /\ isFullScreen' = TRUE
    /\ lastOps' = Shift("Fullscreen")
    /\ beforeFullscreen' =
          [valid |-> TRUE, min |-> <<minWidth, minHeight>>,
           max |-> <<maxWidth, maxHeight>>,
           formMin |-> formMinSize, formMax |-> formMaxSize,
           wasFullScreen |-> isFullScreen,
           fullscreenAtStart |-> frontendOptions.Fullscreen]
    /\ calls' = << <<"Form.Fullscreen">> >>
    /\ NoMessage
    /\ UNCHANGED <<frontendOptions, minWidth, minHeight, maxWidth, maxHeight,
                   notifyRegistered, formMinSize, formMaxSize>>

\* Window.Fullscreen()
Fullscreen ==
    /\ formMaxSize' = <<0, 0>>
    /\ formMinSize' = <<0, 0>>
    /\ isFullScreen' = TRUE
    /\ lastOps' = Shift("Fullscreen")
    /\ beforeFullscreen' =
          [valid |-> TRUE, min |-> <<minWidth, minHeight>>,
           max |-> <<maxWidth, maxHeight>>,
           formMin |-> formMinSize, formMax |-> formMaxSize,
           wasFullScreen |-> isFullScreen,
           fullscreenAtStart |-> frontendOptions.Fullscreen]
    /\ calls' = << <<"Form.SetMaxSize", 0, 0>>, <<"Form.SetMinSize", 0, 0>>,
                   <<"Form.Fullscreen">> >>
    /\ NoMessage
    /\ UNCHANGED <<frontendOptions, minWidth, minHeight, maxWidth, maxHeight,
                   notifyRegistered>>

\* The mutant leaves full-screen without reapplying the maximum size
UnFullscreen_ForgetsMax ==
    /\ lastOps' = Shift("UnFullscreen")
    /\ beforeFullscreen' =
          IF lastOps[2] = "Fullscreen" THEN beforeFullscreen ELSE NoSnapshot
    /\ NoMessage
    /\ IF ~isFullScreen
       THEN /\ calls' = << >>
            /\ UNCHANGED winVars
       ELSE /\ isFullScreen' = FALSE
            /\ formMinSize' = <<minWidth, minHeight>>
            /\ calls' = << <<"Form.UnFullscreen">>,
                           <<"Form.SetMinSize", minWidth, minHeight>> >>
            /\ UNCHANGED <<frontendOptions, minWidth, minHeight, maxWidth,
                           maxHeight, notifyRegistered, formMaxSize>>

\* The mutant reapplies the constraints without asking IsFullScreen
UnFullscreen_NoGuard ==
    /\ lastOps' = Shift("UnFullscreen")
    /\ beforeFullscreen' =
          IF lastOps[2] = "Fullscreen" THEN beforeFullscreen ELSE NoSnapshot
    /\ NoMessage
    /\ isFullScreen' = FALSE
    /\ formMinSize' = <<minWidth, minHeight>>
    /\ formMaxSize' = <<maxWidth, maxHeight>>
    /\ calls' = << <<"Form.UnFullscreen">>,
                   <<"Form.SetMinSize", minWidth, minHeight>>,
                   <<"Form.SetMaxSize", maxWidth, maxHeight>> >>
    /\ UNCHANGED <<frontendOptions, minWidth, minHeight, maxWidth, maxHeight,
                   notifyRegistered>>

\* Window.UnFullscreen(): SetMinSize and SetMaxSize of the Window are called
\* with the stored values, which they store again and push to the form
UnFullscreen ==
    /\ lastOps' = Shift("UnFullscreen")
    /\ beforeFullscreen' =
          IF lastOps[2] = "Fullscreen" THEN beforeFullscreen ELSE NoSnapshot
    /\ NoMessage
    /\ IF ~isFullScreen
       THEN /\ calls' = << >>
            /\ UNCHANGED winVars
       ELSE /\ isFullScreen' = FALSE
            /\ minWidth' = minWidth
            /\ minHeight' = minHeight
            /\ formMinSize' = <<minWidth, minHeight>>
            /\ maxWidth' = maxWidth
            /\ maxHeight' = maxHeight
            /\ formMaxSize' = <<maxWidth, maxHeight>>
            /\ calls' = << <<"Form.UnFullscreen">>,
                           <<"Form.SetMinSize", minWidth, minHeight>>,
                           <<"Form.SetMaxSize", maxWidth, maxHeight>> >>
            /\ UNCHANGED <<frontendOptions, notifyRegistered>>

\* The mutant stores the width and the height the wrong way round
SetMinSize_Swapped(w, h) ==
    /\ minWidth' = h
    /\ minHeight' = w
    /\ formMinSize' = <<w, h>>
    /\ lastOps' = Shift("SetMinSize")
    /\ beforeFullscreen' = NoSnapshot
    /\ calls' = << <<"Form.SetMinSize", w, h>> >>
    /\ NoMessage
    /\ UNCHANGED <<frontendOptions, maxWidth, maxHeight, notifyRegistered,
                   formMaxSize, isFullScreen>>

\* Window.SetMinSize(minWidth, minHeight)
SetMinSize(w, h) ==
    /\ minWidth' = w
    /\ minHeight' = h
    /\ formMinSize' = <<w, h>>
    /\ lastOps' = Shift("SetMinSize")
    /\ beforeFullscreen' = NoSnapshot
    /\ calls' = << <<"Form.SetMinSize", w, h>> >>
    /\ NoMessage
    /\ UNCHANGED <<frontendOptions, maxWidth, maxHeight, notifyRegistered,
                   formMaxSize, isFullScreen>>

\* Window.SetMaxSize(maxWidth, maxHeight)
SetMaxSize(w, h) ==
    /\ maxWidth' = w
    /\ maxHeight' = h
    /\ formMaxSize' = <<w, h>>
    /\ lastOps' = Shift("SetMaxSize")
    /\ beforeFullscreen' = NoSnapshot
    /\ calls' = << <<"Form.SetMaxSize", w, h>> >>
    /\ NoMessage
    /\ UNCHANGED <<frontendOptions, minWidth, minHeight, notifyRegistered,
                   formMinSize, isFullScreen>>

\* The mutant resets the stored minimum while handling a message
WndProc_ClearsMin(m) ==
    /\ msg = NoMsg
    /\ msg' = m
    /\ ret' = WndProcResult(frontendOptions, m)
    /\ rgrc' = WndProcRect(frontendOptions, m)
    /\ calls' = WndProcCalls(frontendOptions, notifyRegistered, m)
    /\ lastOps' = <<"WndProc", "WndProc">>
    /\ beforeFullscreen' = NoSnapshot
    /\ minWidth' = 0
    /\ minHeight' = 0
    /\ UNCHANGED <<frontendOptions, maxWidth, maxHeight, notifyRegistered,
                   formMinSize, formMaxSize, isFullScreen>>

\* Window.WndProc(msg, wparam, lparam), called by the message loop for one
\* message at a time
WndProc(m) ==
    /\ msg = NoMsg
    /\ msg' = m
    /\ ret' = WndProcResult(frontendOptions, m)
    /\ rgrc' = WndProcRect(frontendOptions, m)
    /\ calls' = WndProcCalls(frontendOptions, notifyRegistered, m)
    /\ lastOps' = <<"WndProc", "WndProc">>
    /\ beforeFullscreen' = NoSnapshot
    /\ UNCHANGED winVars

CallSetMinSize == \E s \in MinSizes : SetMinSize(s[1], s[2])
CallSetMaxSize == \E s \in MaxSizes : SetMaxSize(s[1], s[2])
Dispatch == \E m \in Msgs : WndProc(m)

\* winc.RunMainLoop: the result went back to the platform and the loop waits
\* for the next message
EventLoopReturn ==
    /\ msg # NoMsg
    /\ NoMessage
    /\ calls' = << >>
    /\ UNCHANGED <<lastOps, beforeFullscreen>>
    /\ UNCHANGED winVars

Next ==
    \/ RegisterObserver /\ UNCHANGED buildVars
    \/ Fullscreen /\ UNCHANGED buildVars
    \/ UnFullscreen /\ UNCHANGED buildVars
    \/ CallSetMinSize /\ UNCHANGED buildVars
    \/ CallSetMaxSize /\ UNCHANGED buildVars
    \/ Dispatch /\ UNCHANGED buildVars
    \/ EventLoopReturn /\ UNCHANGED buildVars

Spec == Init /\ [][Next]_vars

\* the build command runs in a process of its own, with no window
NoWindow ==
    NewWindow([Width |-> 800, Height |-> 600, MinWidth |-> 0, MinHeight |-> 0,
               MaxWidth |-> 0, MaxHeight |-> 0,
               Frameless |-> FALSE, Fullscreen |-> FALSE])

BuildInit ==
    /\ NoWindow
    /\ \E f \in Flags : BuildStart(f)

BuildNext ==
    \/ EachSkip /\ UNCHANGED windowVars
    \/ (\E ok \in BOOLEAN : EachBuild(ok)) /\ UNCHANGED windowVars
    \/ BuildReturn /\ UNCHANGED windowVars

BuildSpec == BuildInit /\ [][BuildNext]_vars

----------------------------------------------------------------------------
(* Properties *)

stored == <<minWidth, minHeight, maxWidth, maxHeight>>
HitTestHandled == msg.kind = "WM_NCHITTEST" /\ frontendOptions.Frameless
CalcSizeHandled ==
    msg.kind = "WM_NCCALCSIZE" /\ frontendOptions.Frameless /\ msg.wparam # 0
\* scaled frame thickness plus scaled padding for the message's monitor
TopBand == ScaleWithDPI(MetricCYFRAME, msg.dpi)
               + ScaleWithDPI(MetricCXPADDEDBORDER, msg.dpi)
FormWndProcCalled == \E i \in 1..Len(calls) : calls[i] = <<"Form.WndProc">>
RepositionRequests(cs) == {i \in 1..Len(cs) : cs[i][1] = "SetWindowPos"}

\* C1: in frameless mode a hit-test whose default classification is one of
\* the eight named resize edges or corners returns that region unchanged.
C1_EdgeReturnedUnchanged ==
    (HitTestHandled /\ msg.formResult \in ResizeEdges) => ret = msg.formResult

\* C2: in frameless mode, with the platform queries answering, a hit-test
\* whose default classification is caption or client returns the top resize
\* edge for 0 <= y < scaledFrameY + scaledPadding and client area for a y
\* at or beyond that band.
C2_TopBandInclusiveOfZero ==
    (/\ HitTestHandled
     /\ msg.formResult \in {HTCAPTION, HTCLIENT}
     /\ msg.monitorInfoOk
     /\ msg.screenToClientOk)
    => /\ (0 <= msg.y /\ msg.y < TopBand) => ret = HTTOP
       /\ msg.y >= TopBand => ret = HTCLIENT

\* C3: the window created with Width 800, Height 600, MinWidth 400,
\* MinHeight 300, no maximum size and Frameless answers a hit-test at client
\* offset y = 2 with the top resize edge and one at y = 300 with client area,
\* when monitor info is available and the scaled frame plus padding exceeds 2.
C3_ScenarioTopEdgeAtY2 ==
    (/\ HitTestHandled
     /\ frontendOptions.Width = 800 /\ frontendOptions.Height = 600
     /\ frontendOptions.MinWidth = 400 /\ frontendOptions.MinHeight = 300
     /\ frontendOptions.MaxWidth = 0 /\ frontendOptions.MaxHeight = 0
     /\ msg.formResult \in {HTCAPTION, HTCLIENT}
     /\ msg.monitorInfoOk
     /\ msg.screenToClientOk
     /\ TopBand > 2)
    => /\ msg.y = 2 => ret = HTTOP
       /\ msg.y = 300 => ret = HTCLIENT

\* C4 as claimed: Fullscreen immediately followed by UnFullscreen, from a
\* window that was not full-screen, leaves the stored constraints and the
\* constraints applied to the platform window as they were before Fullscreen.
C4_RoundTripRestoresPlatform ==
    (/\ lastOps = <<"Fullscreen", "UnFullscreen">>
     /\ beforeFullscreen.valid
     /\ ~beforeFullscreen.wasFullScreen)
    => /\ <<minWidth, minHeight>> = beforeFullscreen.min
       /\ <<maxWidth, maxHeight>> = beforeFullscreen.max
       /\ formMinSize = beforeFullscreen.formMin
       /\ formMaxSize = beforeFullscreen.formMax

\* C4 as amended: Fullscreen immediately followed by UnFullscreen leaves the
\* stored constraints as they were before Fullscreen, leaves the window not
\* full-screen and leaves the platform window with exactly the stored
\* constraints; these are the platform constraints from before Fullscreen
\* when the window was not full-screen then and was not created with
\* options.Fullscreen.
C4_RoundTripRestoresStored ==
    (lastOps = <<"Fullscreen", "UnFullscreen">> /\ beforeFullscreen.valid)
    => /\ <<minWidth, minHeight>> = beforeFullscreen.min
       /\ <<maxWidth, maxHeight>> = beforeFullscreen.max
       /\ ~isFullScreen
       /\ formMinSize = <<minWidth, minHeight>>
       /\ formMaxSize = <<maxWidth, maxHeight>>
       /\ (~beforeFullscreen.wasFullScreen /\ ~beforeFullscreen.fullscreenAtStart)
             => /\ formMinSize = beforeFullscreen.formMin
                /\ formMaxSize = beforeFullscreen.formMax

C4_Witness ==
    /\ lastOps = <<"Fullscreen", "UnFullscreen">>
    /\ beforeFullscreen.valid
    /\ ~beforeFullscreen.wasFullScreen
    /\ ~beforeFullscreen.fullscreenAtStart
    /\ beforeFullscreen.formMin = <<400, 300>>
    /\ beforeFullscreen.formMax = <<800, 600>>
    /\ formMinSize = <<400, 300>>
    /\ formMaxSize = <<800, 600>>
    /\ <<frontendOptions.MaxWidth, frontendOptions.MaxHeight>> # <<800, 600>>

\* C5: whenever the window is full-screen, the constraints in force at the
\* platform window are (0, 0) for both the minimum and the maximum.
C5_FullscreenUnconstrained ==
    isFullScreen => formMinSize = <<0, 0>> /\ formMaxSize = <<0, 0>>

\* C6 as claimed: right after NewWindow(options), for options with min <= max
\* wherever max > 0, the stored constraints and the constraints applied to
\* the platform window both equal the options' values, full-screen-at-start
\* included.
C6_CreateAppliesOptions ==
    (/\ lastOps[2] = "NewWindow"
     /\ (frontendOptions.MaxWidth > 0
            => frontendOptions.MinWidth <= frontendOptions.MaxWidth)
     /\ (frontendOptions.MaxHeight > 0
            => frontendOptions.MinHeight <= frontendOptions.MaxHeight))
    => /\ stored = <<frontendOptions.MinWidth, frontendOptions.MinHeight,
                     frontendOptions.MaxWidth, frontendOptions.MaxHeight>>
       /\ formMinSize = <<frontendOptions.MinWidth, frontendOptions.MinHeight>>
       /\ formMaxSize = <<frontendOptions.MaxWidth, frontendOptions.MaxHeight>>

\* C6 as amended: right after NewWindow(options) the stored constraints equal
\* the options' values; the platform window has them applied when
\* options.Fullscreen is false and has none applied when it is true.
C6_CreateStoresOptions ==
    lastOps[2] = "NewWindow"
    => /\ stored = <<frontendOptions.MinWidth, frontendOptions.MinHeight,
                     frontendOptions.MaxWidth, frontendOptions.MaxHeight>>
       /\ ~frontendOptions.Fullscreen
             => /\ formMinSize = <<frontendOptions.MinWidth, frontendOptions.MinHeight>>
                /\ formMaxSize = <<frontendOptions.MaxWidth, frontendOptions.MaxHeight>>
       /\ frontendOptions.Fullscreen
             => /\ formMinSize = <<0, 0>>
                /\ formMaxSize = <<0, 0>>

C6_Witness ==
    /\ lastOps[2] = "NewWindow"
    /\ frontendOptions.Fullscreen
    /\ stored = <<400, 300, 800, 600>>
    /\ formMinSize = <<0, 0>>
    /\ formMaxSize = <<0, 0>>

\* C7: a frameless window answering a frame-calculation query with
\* wparam != 0 and monitor info available returns the top of the client
\* rectangle increased by the scaled padding when the style has the
\* maximized bit and unchanged when it has not, whatever the options.
C7_MaximizedTopInset ==
    (CalcSizeHandled /\ msg.monitorInfoOk)
    => rgrc.Top = IF msg.maximized
                  THEN msg.rect.Top + ScaleWithDPI(MetricCXPADDEDBORDER, msg.dpi)
                  ELSE msg.rect.Top

\* C8: a frameless window answering a frame-calculation query with
\* wparam != 0 returns 0 without calling the default procedure; with monitor
\* info available the rectangle is shrunk by the scaled frameX + padding on
\* the left and on the right and by the scaled frameY + padding at the
\* bottom, and it is returned unadjusted only without monitor info.
C8_ShrinkWheneverMonitorInfo ==
    CalcSizeHandled
    => /\ ret = 0
       /\ ~FormWndProcCalled
       /\ msg.monitorInfoOk
             => LET fx == ScaleWithDPI(MetricCXFRAME, msg.dpi)
                    fy == ScaleWithDPI(MetricCYFRAME, msg.dpi)
                    pd == ScaleWithDPI(MetricCXPADDEDBORDER, msg.dpi)
                IN  /\ rgrc.Left = msg.rect.Left + (fx + pd)
                    /\ rgrc.Right = msg.rect.Right - (fx + pd)
                    /\ rgrc.Bottom = msg.rect.Bottom - (fy + pd)
       /\ ~msg.monitorInfoOk => rgrc = msg.rect

\* C9: handling a DPI-changed message with suggested rectangle
\* (Left, Top, Right, Bottom) issues exactly one reposition request, at
\* (Left, Top) with width Right-Left and height Bottom-Top and without the
\* no-move or no-size flag, so that the requested bounds are the suggested
\* rectangle, and leaves the stored constraints unchanged.
C9_DpiChangedRepositionsOnce ==
    [][msg'.kind = "WM_DPICHANGED"
        => /\ Cardinality(RepositionRequests(calls')) = 1
           /\ LET c == calls'[1]
              IN  /\ c = <<"SetWindowPos", msg'.rect.Left, msg'.rect.Top,
                           msg'.rect.Right - msg'.rect.Left,
                           msg'.rect.Bottom - msg'.rect.Top,
                           "SWP_NOZORDER|SWP_NOACTIVATE">>
                  /\ [Left |-> c[2], Top |-> c[3],
                      Right |-> c[2] + c[4], Bottom |-> c[3] + c[5]] = msg'.rect
           /\ stored' = stored]_vars

C9_Witness ==
    /\ msg.kind = "WM_DPICHANGED"
    /\ msg.rect = [Left |-> 100, Top |-> 100, Right |-> 1600, Bottom |-> 1200]
    /\ calls[1] = <<"SetWindowPos", 100, 100, 1500, 1100, "SWP_NOZORDER|SWP_NOACTIVATE">>
    /\ stored = <<400, 300, 800, 600>>

\* C10: in frameless mode a hit-test whose default classification is not a
\* resize edge is always answered with the top resize edge or client area,
\* and with client area when monitor info cannot be retrieved or the
\* screen-to-client conversion fails.
C10_HitTestTotal ==
    (HitTestHandled /\ msg.formResult \notin ResizeEdges)
    => /\ ret \in {HTTOP, HTCLIENT}
       /\ (~msg.monitorInfoOk \/ ~msg.screenToClientOk) => ret = HTCLIENT

C10_Witness ==
    /\ HitTestHandled
    /\ msg.formResult = HTCAPTION
    /\ frontendOptions.MaxHeight > 0
    /\ ~msg.monitorInfoOk
    /\ msg.screenToClientOk
    /\ msg.y = 1
    /\ ret = HTCLIENT

\* C11: SetMinSize(w, h) leaves the stored minimum and the minimum pushed to
\* the platform window equal to (w, h) and changes neither maximum;
\* SetMaxSize(w, h) does the same for the maximum and changes neither
\* minimum; after SetMaxSize(0, 0) the window has no maximum constraint.
C11_SettersStoreAndPush ==
    [][/\ lastOps'[2] = "SetMinSize"
            => /\ Len(calls') = 1
               /\ calls'[1][1] = "Form.SetMinSize"
               /\ <<minWidth', minHeight'>> = <<calls'[1][2], calls'[1][3]>>
               /\ formMinSize' = <<calls'[1][2], calls'[1][3]>>
               /\ UNCHANGED <<maxWidth, maxHeight, formMaxSize>>
       /\ lastOps'[2] = "SetMaxSize"
            => /\ Len(calls') = 1
               /\ calls'[1][1] = "Form.SetMaxSize"
               /\ <<maxWidth', maxHeight'>> = <<calls'[1][2], calls'[1][3]>>
               /\ formMaxSize' = <<calls'[1][2], calls'[1][3]>>
               /\ UNCHANGED <<minWidth, minHeight, formMinSize>>]_vars

C11_Witness ==
    /\ lastOps = <<"SetMinSize", "SetMaxSize">>
    /\ calls = << <<"Form.SetMaxSize", 0, 0>> >>
    /\ frontendOptions.MaxHeight = 600
    /\ frontendOptions.MinWidth = 0
    /\ stored = <<400, 300, 0, 0>>
    /\ formMinSize = <<400, 300>>
    /\ formMaxSize = <<0, 0>>

\* C12: UnFullscreen called while the window is not full-screen changes
\* neither the stored constraints, nor the platform constraints, nor the
\* full-screen flag, and issues no platform call.
C12_UnFullscreenNoOp ==
    [][(lastOps'[2] = "UnFullscreen" /\ ~isFullScreen)
        => /\ UNCHANGED winVars
           /\ calls' = << >>]_vars

C12_Witness ==
    /\ lastOps = <<"NewWindow", "UnFullscreen">>
    /\ frontendOptions.Fullscreen
    /\ stored = <<400, 300, 800, 600>>
    /\ formMinSize = <<0, 0>>
    /\ formMaxSize = <<0, 0>>
    /\ ~isFullScreen
    /\ calls = << >>

\* C13: a Fullscreen call on a window that is already full-screen leaves the
\* stored constraints, the platform constraints and the full-screen flag as
\* they were before the call.
C13_FullscreenIdempotent ==
    (/\ lastOps[2] = "Fullscreen"
     /\ beforeFullscreen.valid
     /\ beforeFullscreen.wasFullScreen)
    => /\ <<minWidth, minHeight>> = beforeFullscreen.min
       /\ <<maxWidth, maxHeight>> = beforeFullscreen.max
       /\ formMinSize = beforeFullscreen.formMin
       /\ formMaxSize = beforeFullscreen.formMax
       /\ isFullScreen

NotIntercepted ==
    /\ ~frontendOptions.Frameless
    /\ msg.kind \in {"WM_CREATE", "WM_NCHITTEST", "WM_NCCALCSIZE"}

\* C14: when options.Frameless is false, the window-created, hit-test and
\* frame-calculation messages get exactly the default procedure's result,
\* with no reposition request and the proposed client rectangle untouched.
C14_NotFramelessForwards ==
    NotIntercepted
    => /\ ret = msg.formResult
       /\ calls = << <<"Form.WndProc">> >>
       /\ msg.kind = "WM_NCCALCSIZE" => rgrc = msg.rect

C14_Witness ==
    /\ NotIntercepted
    /\ msg.kind = "WM_NCHITTEST"
    /\ msg.formResult = HTCAPTION
    /\ msg.monitorInfoOk /\ msg.screenToClientOk /\ msg.y = 1
    /\ frontendOptions.MaxHeight > 0
    /\ ret = HTCAPTION

\* C15: for a move or moving message a registered position observer is
\* invoked exactly once, before the default procedure, and nothing is invoked
\* when none is registered; in both cases, whatever the observer returns,
\* the message is forwarded and the result is the default procedure's.
C15_MoveNotifiesThenForwards ==
    msg.kind \in {"WM_MOVE", "WM_MOVING"}
    => /\ calls = IF notifyRegistered
                  THEN << <<"notifyParentWindowPositionChanged">>, <<"Form.WndProc">> >>
                  ELSE << <<"Form.WndProc">> >>
       /\ ret = msg.formResult

C15_Witness ==
    /\ msg.kind = "WM_MOVING"
    /\ notifyRegistered
    /\ msg.observerErr
    /\ msg.formResult = 1
    /\ calls = << <<"notifyParentWindowPositionChanged">>, <<"Form.WndProc">> >>
    /\ ret = 1

\* C16: no WndProc call changes the stored minWidth, minHeight, maxWidth or
\* maxHeight, whatever the message, the frameless setting and the platform's
\* answers; after construction only SetMinSize and SetMaxSize change them.
C16_DispatchKeepsGeometry ==
    [][/\ msg'.kind # "none" => stored' = stored
       /\ stored' # stored => lastOps'[2] \in {"SetMinSize", "SetMaxSize"}]_vars

C16_Witness ==
    /\ msg.kind = "WM_NCCALCSIZE"
    /\ msg.wparam = 1
    /\ msg.monitorInfoOk
    /\ frontendOptions.Frameless
    /\ frontendOptions.MinWidth = 0
    /\ stored = <<400, 300, 800, 600>>
    /\ rgrc # msg.rect

----------------------------------------------------------------------------
(* The build command: properties, checked under BuildSpec *)

\* the build.Build invocations so far
BuildIndexes == 1..Len(builds)

\* the target is one the closure takes as far as build.Build
ReachesBuild(p) ==
    p \in ValidPlatformArch /\ ~CrossCompileSkipped(flags, p)

\* C17: when -o is given and exactly one target is built, build.Build is
\* invoked for that target with Options.OutputFile equal to the -o value,
\* the name the command prints as "Output File".
C17_OutputFileIsDashO ==
    (Len(flags.outputFilename) > 0 /\ Len(targets) = 1) =>
        /\ printedOutputFile = flags.outputFilename
        /\ \A i \in BuildIndexes :
              builds[i].options.OutputFile = flags.outputFilename

\* C18: when compression is requested, build.Build is invoked for
\* darwin/universal with Options.Compress = false.
C18_UniversalNotCompressed ==
    \A i \in BuildIndexes :
        (flags.compress /\ builds[i].target = <<"darwin", "universal">>) =>
            ~builds[i].options.Compress

\* C19 as stated: every target after the first in the de-duplicated list is
\* built with IgnoreFrontend = true and CleanBuildDirectory = false, whatever
\* happened to the earlier targets.
C19_LaterTargetsSkipFrontend ==
    \A i \in BuildIndexes :
        builds[i].position > 1 =>
            /\ builds[i].options.IgnoreFrontend
            /\ ~builds[i].options.CleanBuildDirectory

\* C19, amended: every target built after an earlier target's build.Build
\* succeeded is built with IgnoreFrontend = true and CleanBuildDirectory =
\* false; a target built before any build succeeded is built with the
\* -s and -clean flags of the command line.
C19_AfterSuccessSkipFrontend ==
    \A j \in BuildIndexes :
        IF \E i \in 1..(j - 1) : builds[i].ok
        THEN /\ builds[j].options.IgnoreFrontend
             /\ ~builds[j].options.CleanBuildDirectory
        ELSE /\ builds[j].options.IgnoreFrontend = flags.skipFrontend
             /\ builds[j].options.CleanBuildDirectory = flags.cleanBuildDirectory

C19_Witness ==
    /\ Len(builds) = 2
    /\ builds[1].ok
    /\ ~flags.skipFrontend
    /\ flags.cleanBuildDirectory
    /\ ~builds[1].options.IgnoreFrontend
    /\ builds[1].options.CleanBuildDirectory
    /\ builds[2].options.IgnoreFrontend
    /\ ~builds[2].options.CleanBuildDirectory

\* the index of the first occurrence of p in the -platform flag
FirstOccurrence(p) ==
    CHOOSE i \in 1..Len(flags.platform) :
        /\ flags.platform[i] = p
        /\ \A k \in 1..(i - 1) : flags.platform[k] # p

\* targets holds each distinct string of the -platform flag once, in the order
\* of first occurrence
TargetsAreTheDistinctStrings ==
    /\ {targets[i] : i \in 1..Len(targets)} =
          {flags.platform[i] : i \in 1..Len(flags.platform)}
    /\ \A i, j \in 1..Len(targets) :
          i < j => FirstOccurrence(targets[i]) < FirstOccurrence(targets[j])

\* the build.Build invocations are those of the visited targets that reach
\* build.Build, one each, in order
OneBuildPerBuildableVisit ==
    /\ Len(builds) = Cardinality({i \in 1..Len(visits) : ReachesBuild(visits[i])})
    /\ \A i \in BuildIndexes :
          /\ builds[i].target = targets[builds[i].position]
          /\ ReachesBuild(builds[i].target)
    /\ \A i, j \in BuildIndexes : i < j => builds[i].position < builds[j].position

\* C20: once the validation has passed, a skip or a failure never stops the
\* loop: each distinct target string is visited exactly once in list order,
\* every supported, non-cross-compiled target gets exactly one build.Build
\* invocation, and the action returns nil, even when builds failed.
C20_LoopVisitsEveryTarget ==
    ValidationPasses(flags) =>
        /\ TargetsAreTheDistinctStrings
        /\ position \in 1..(Len(targets) + 1)
        /\ visits = SubSeq(targets, 1, position - 1)
        /\ OneBuildPerBuildableVisit
        /\ actionResult # "error"
        /\ bpc = "returned" => (actionResult = "nil" /\ visits = targets)

C20_Witness ==
    /\ bpc = "returned"
    /\ actionResult = "nil"
    /\ targets = <<<<"windows">>, <<"darwin", "arm64">>>>
    /\ visits = targets
    /\ Len(builds) = 2
    /\ ~builds[1].ok
    /\ builds[2].ok

====
